---- MODULE Spec2Model ----
(***************************************************************************)
(* Model of the moderation loop of filter_posts/mastodon_filter_ollama_v4  *)
(* (Config, InfractionTracker, AIAnalyzer, ActionHandler,                  *)
(* NotificationProcessor, MastodonFilter).                                 *)
(*                                                                         *)
(* Confidences are integers in hundredths (0.6 is 60).  A notification id  *)
(* is a record [kind, val] so that str(id) is a real conversion.           *)
(***************************************************************************)
EXTENDS Integers, Sequences, FiniteSets, TLC

VARIABLES
    cfg,                  \* the Config object of the run
    infractions,          \* InfractionTracker.infractions (in memory)
    infractions_file,     \* content of Config.infractions_file (on disk)
    processed_ids,        \* NotificationProcessor.processed_ids (in memory)
    processed_ids_file,   \* lines of Config.processed_ids_file (on disk)
    server,               \* mentions held by the server, newest first
    pc,                   \* position of MastodonFilter.run
    new_notifications,    \* the unprocessed notifications of the current fetch
    batch,                \* notifications the for loop of run has left
    cur,                  \* the notification process_notification works on
    attempt,              \* loop variable of AIAnalyzer.analyze
    chat_calls,           \* client.chat calls made by the current analyze
    sleeps,               \* time.sleep(retry_delay) calls of the current analyze
    response,             \* what the latest client.chat call produced
    ai_decision,          \* the dict analyze returned
    last,                 \* what the latest take_action call did
    arg,                  \* arguments of a function called on its own
    ret                   \* what that call returned

vars == <<cfg, infractions, infractions_file, processed_ids, processed_ids_file,
          server, pc, new_notifications, batch, cur, attempt, chat_calls, sleeps,
          response, ai_decision, last, arg, ret>>

-----------------------------------------------------------------------------
(* Bounds of the model *)

MaxNotifs == 2        \* mentions the server ever holds
MaxThreshold == 3     \* largest mute_threshold / block_threshold tried
MaxRetries == 2       \* largest max_retries tried
MaxCount == 3         \* polling stops once a count has reached this
MaxMentions == 3      \* mentions of the one-author scenario

(* Program constants *)

ConfidenceFloor == 60     \* "if confidence < 0.6"
NewAccountDays == 30      \* Config.new_account_days
MuteThreshold == 1        \* Config.mute_threshold
BlockThreshold == 3       \* Config.block_threshold
Today == 100              \* datetime.now(), in days

-----------------------------------------------------------------------------
(* Values *)

NoValue == [kind |-> "none"]

Classifications == {"NEUTRAL", "MILDLY_NEGATIVE", "SEVERELY_NEGATIVE"}

Negative == {"MILDLY_NEGATIVE", "SEVERELY_NEGATIVE"}

Allowlist == {"friend@mastodon.social", "another_friend@example.com",
              "news_bot_i_like@botsin.space"}

\* created_at: a date string dateutil parses (day number), or one it rejects
Date(d) == [parses |-> TRUE, day |-> d]
BadDate == [parses |-> FALSE, day |-> 0]

Account(i, a, c) == [id |-> i, acct |-> a, created_at |-> c]

Friend == Account(1, "friend@mastodon.social", Date(Today - 5))
Troll  == Account(2, "troll@example.com", Date(Today - 31))
Alt    == Account(3, "alt@example.com", Date(Today - 30))
Ghost  == Account(4, "ghost@example.com", BadDate)
Newbie == Account(5, "newbie@example.com", Date(Today - 5))

Accounts == {Friend, Troll, Alt, Ghost, Newbie}

\* Notification ids as the client delivers them, and str(id)
IdKinds == {"int", "str"}
Id(k, v) == [kind |-> k, val |-> v]
Str(id) == [kind |-> "str", val |-> id.val]

Confidences == {59, 60, 90}

\* What one client.chat call can produce
Response(t, j, k, c, n, f) ==
    [transport_ok |-> t, json_ok |-> j, has_keys |-> k, classification |-> c,
     reason |-> "stated by the model", numeric |-> n, confidence |-> f]

ValidResponses ==
    {Response(TRUE, TRUE, TRUE, c, TRUE, f) : c \in Classifications, f \in Confidences}

FailingResponses ==
    { Response(FALSE, TRUE, TRUE, "NEUTRAL", TRUE, 90),              \* transport error
      Response(TRUE, FALSE, TRUE, "NEUTRAL", TRUE, 90),              \* malformed JSON
      Response(TRUE, TRUE, FALSE, "SEVERELY_NEGATIVE", TRUE, 90),    \* missing key
      Response(TRUE, TRUE, TRUE, "NEGATIVE", TRUE, 90),              \* invalid classification
      Response(TRUE, TRUE, TRUE, "SEVERELY_NEGATIVE", FALSE, 0) }    \* confidence not a number

Responses == ValidResponses \cup FailingResponses

\* The responses the poll loop is run on: every classification below and above
\* the confidence floor, a transport error and a malformed answer
LoopResponses ==
    {r \in ValidResponses : r.confidence \in {59, 90}}
        \cup {r \in FailingResponses : ~r.transport_ok \/ ~r.json_ok}

\* Config objects: every setting of the flags, the thresholds and max_retries
\* taken from the given sets
ConfigsOf(mutes, blocks, retries) ==
    [dry_run : BOOLEAN, send_warnings : BOOLEAN,
     new_account_instant_block : BOOLEAN, new_account_no_warning : BOOLEAN,
     new_account_days : {NewAccountDays},
     mute_threshold : mutes, block_threshold : blocks,
     max_retries : retries]

\* The configurations the poll loop is run under: the thresholds of Config(),
\* dry_run, send_warnings and new_account_instant_block either way
Configs ==
    {c \in ConfigsOf({MuteThreshold}, {BlockThreshold}, {MaxRetries}) :
        c.new_account_no_warning}

-----------------------------------------------------------------------------
(* Helpers *)

\* A list left in its order
SameOrder(s) == s

RECURSIVE Reverse(_)
Reverse(s) == IF s = <<>> THEN <<>> ELSE Append(Reverse(Tail(s)), Head(s))

Range(s) == {s[i] : i \in 1..Len(s)}

Truthy(n) == n # 0

EmptyDict == [h \in {} |-> NoValue]

-----------------------------------------------------------------------------
(* InfractionTracker *)

NoFile == [exists |-> FALSE, valid |-> TRUE, data |-> EmptyDict]

\* _load
Load(file) ==
    IF ~file.exists THEN EmptyDict
    ELSE IF file.valid THEN file.data
    ELSE EmptyDict

\* _save writing nothing
SaveSkipped(inf) == NoFile

\* _save: the whole dict is written
Save(inf) == [exists |-> TRUE, valid |-> TRUE, data |-> inf]

Entry(classification, reason) ==
    [timestamp |-> Today, classification |-> classification, reason |-> reason]

\* add_infraction keeping only the latest entry of the history
AddInfractionRewrites(inf, user_acct, classification, reason) ==
    LET old == IF user_acct \in DOMAIN inf
               THEN inf[user_acct]
               ELSE [count |-> 0, history |-> <<>>]
        new == [count |-> old.count + 1,
                history |-> <<Entry(classification, reason)>>]
    IN  [h \in DOMAIN inf \cup {user_acct} |-> IF h = user_acct THEN new ELSE inf[h]]

\* add_infraction, up to the call of _save
AddInfraction(inf, user_acct, classification, reason) ==
    LET old == IF user_acct \in DOMAIN inf
               THEN inf[user_acct]
               ELSE [count |-> 0, history |-> <<>>]
        new == [count |-> old.count + 1,
                history |-> Append(old.history, Entry(classification, reason))]
    IN  [h \in DOMAIN inf \cup {user_acct} |-> IF h = user_acct THEN new ELSE inf[h]]

\* get_count
GetCount(inf, user_acct) ==
    IF user_acct \in DOMAIN inf THEN inf[user_acct].count ELSE 0

\* reset deleting every record
ResetAll(inf, user_acct) == EmptyDict

\* reset, up to the call of _save
Reset(inf, user_acct) == [h \in DOMAIN inf \ {user_acct} |-> inf[h]]

-----------------------------------------------------------------------------
(* AIAnalyzer *)

\* Does the body of the try block raise on this response
AttemptRaises(resp) ==
    \/ ~resp.transport_ok                       \* client.chat raises
    \/ ~resp.json_ok                            \* json.loads raises
    \/ ~resp.has_keys                           \* ValueError: missing keys
    \/ resp.classification \notin Classifications  \* ValueError: invalid
    \/ ~resp.numeric                            \* the :.2f format raises

\* The dict a valid response is parsed into
Decision(resp) ==
    [classification |-> resp.classification, reason |-> resp.reason,
     confidence |-> resp.confidence]

\* A default that fails closed instead of safe
FailSafeHostile ==
    [classification |-> "SEVERELY_NEGATIVE",
     reason |-> "AI analysis failed",
     confidence |-> 100]

\* The fail-safe value returned after the loop
FailSafe ==
    [classification |-> "NEUTRAL",
     reason |-> "AI analysis failed - defaulting to safe classification",
     confidence |-> 0]

\* The delay taken after every failure, the last one too
SleepsAlways(att, max_retries) == att < max_retries

\* Is time.sleep(retry_delay) called after a failure of this attempt
SleepsAfter(att, max_retries) == att < max_retries - 1

-----------------------------------------------------------------------------
(* ActionHandler *)

\* _is_new_account with the age compared by < instead of <=
IsNewAccountStrict(author, config) ==
    IF ~author.created_at.parses THEN FALSE
    ELSE LET account_age == Today - author.created_at.day
         IN  account_age < config.new_account_days

\* _is_new_account
IsNewAccount(author, config) ==
    IF ~author.created_at.parses THEN FALSE
    ELSE LET account_age == Today - author.created_at.day
         IN  account_age <= config.new_account_days

\* _determine_action with the block threshold compared by > instead of >=
DetermineActionLate(classification, infraction_count, config) ==
    IF classification = "SEVERELY_NEGATIVE"
    THEN IF infraction_count > config.block_threshold THEN "block" ELSE "mute"
    ELSE IF classification = "MILDLY_NEGATIVE"
    THEN IF infraction_count > config.block_threshold THEN "block"
         ELSE IF infraction_count >= config.mute_threshold THEN "mute"
         ELSE "none"
    ELSE "none"

\* _determine_action
DetermineAction(classification, infraction_count, config) ==
    IF classification = "SEVERELY_NEGATIVE"
    THEN IF infraction_count >= config.block_threshold THEN "block" ELSE "mute"
    ELSE IF classification = "MILDLY_NEGATIVE"
    THEN IF infraction_count >= config.block_threshold THEN "block"
         ELSE IF infraction_count >= config.mute_threshold THEN "mute"
         ELSE "none"
    ELSE "none"

\* ActionHandler defines no _send_warning: evaluating self._send_warning
\* raises AttributeError before anything is sent
SendWarningRaises == TRUE

\* What a take_action call that returns at one of its gates did
Gated(gate, inf) ==
    [gate |-> gate, infractions |-> inf, saved |-> FALSE, count |-> 0,
     warning |-> "not_sent", action |-> "none", api |-> "none",
     api_ok |-> TRUE, raised |-> FALSE]

\* _execute_action without the dry_run check
ExecuteActionLive(action, config, api_ok) ==
    IF action = "mute" THEN [api |-> "account_mute", api_ok |-> api_ok]
    ELSE IF action = "block" THEN [api |-> "account_block", api_ok |-> api_ok]
    ELSE [api |-> "none", api_ok |-> TRUE]

\* _execute_action; api_ok is whether the client's call succeeds
ExecuteAction(action, config, api_ok) ==
    IF config.dry_run THEN [api |-> "dry_run", api_ok |-> TRUE]
    ELSE IF action = "mute" THEN [api |-> "account_mute", api_ok |-> api_ok]
    ELSE IF action = "block" THEN [api |-> "account_block", api_ok |-> api_ok]
    ELSE [api |-> "none", api_ok |-> TRUE]

\* Is _send_warning called
WarningDue(is_new, status_id, config) ==
    /\ config.send_warnings
    /\ Truthy(status_id)
    /\ ~(is_new /\ config.new_account_no_warning)

\* take_action, from the new-account check on
Escalate(author, decision, status_id, config, inf, api_ok) ==
    LET classification == decision.classification
        is_new == IsNewAccount(author, config)
    IN  IF is_new /\ config.new_account_instant_block /\ classification \in Negative
        THEN [gate |-> "new_account", infractions |-> inf, saved |-> FALSE,
              count |-> 0, warning |-> "not_sent", action |-> "block",
              api |-> IF config.dry_run THEN "dry_run" ELSE "account_block",
              api_ok |-> IF config.dry_run THEN TRUE ELSE api_ok,
              raised |-> FALSE]
        ELSE
          LET recorded == classification \in Negative
              inf2 == IF recorded
                      THEN AddInfraction(inf, author.acct, classification,
                                         decision.reason)
                      ELSE inf
              infraction_count == GetCount(inf2, author.acct)
              base == [gate |-> "escalation", infractions |-> inf2,
                       saved |-> recorded, count |-> infraction_count]
          IN  IF WarningDue(is_new, status_id, config) /\ SendWarningRaises
              THEN base @@ [warning |-> "AttributeError", action |-> "undecided",
                            api |-> "none", api_ok |-> TRUE, raised |-> TRUE]
              ELSE
                LET action == DetermineAction(classification, infraction_count,
                                              config)
                    done == IF action = "none"
                            THEN [api |-> "none", api_ok |-> TRUE]
                            ELSE ExecuteAction(action, config, api_ok)
                IN  base @@ [warning |-> "not_sent", action |-> action,
                             api |-> done.api, api_ok |-> done.api_ok,
                             raised |-> FALSE]

\* take_action with the confidence compared by <= instead of <
TakeActionFloorInclusive(author, decision, status_id, config, inf, api_ok) ==
    IF decision.classification = "NEUTRAL" THEN Gated("neutral", inf)
    ELSE IF decision.confidence <= ConfidenceFloor THEN Gated("low_confidence", inf)
    ELSE IF author.acct \in Allowlist THEN Gated("allowlisted", inf)
    ELSE Escalate(author, decision, status_id, config, inf, api_ok)

\* take_action with the allowlist looked up after the new-account check
TakeActionAllowlistLate(author, decision, status_id, config, inf, api_ok) ==
    IF decision.classification = "NEUTRAL" THEN Gated("neutral", inf)
    ELSE IF decision.confidence < ConfidenceFloor THEN Gated("low_confidence", inf)
    ELSE IF /\ IsNewAccount(author, config)
            /\ config.new_account_instant_block
            /\ decision.classification \in Negative
    THEN Escalate(author, decision, status_id, config, inf, api_ok)
    ELSE IF author.acct \in Allowlist THEN Gated("allowlisted", inf)
    ELSE Escalate(author, decision, status_id, config, inf, api_ok)

\* take_action
TakeActionResult(author, decision, status_id, config, inf, api_ok) ==
    IF decision.classification = "NEUTRAL" THEN Gated("neutral", inf)
    ELSE IF decision.confidence < ConfidenceFloor THEN Gated("low_confidence", inf)
    ELSE IF author.acct \in Allowlist THEN Gated("allowlisted", inf)
    ELSE Escalate(author, decision, status_id, config, inf, api_ok)

-----------------------------------------------------------------------------
(* NotificationProcessor *)

\* _load_processed_ids reading nothing
LoadNoIds(lines) == {}

\* _load_processed_ids: the set of the stripped lines
LoadProcessedIds(lines) == Range(lines)

\* mark_processed: the id is added as it was passed
MarkProcessed(ids, notification_id) == ids \cup {notification_id}

\* mark_processed: the line f"{notification_id}\n" appended to the file,
\* without its newline
FileLine(notification_id) == Str(notification_id)

\* is_processed
IsProcessed(ids, notification_id) == Str(notification_id) \in ids

-----------------------------------------------------------------------------
(* MastodonFilter *)

Notification(k, n, a) ==
    [id |-> Id(k, n), status |-> [id |-> n, account |-> a]]

\* The list comprehension of run: the fetched notifications not yet processed
NewNotifications(notifications, ids) ==
    SelectSeq(notifications, LAMBDA n : ~IsProcessed(ids, Str(n.id)))

\* process_notification passing notif['id'] as the client delivered it
MarkedIdRaw(notif) == notif.id

\* process_notification marking the id after the one it worked on
MarkedIdNext(notif) == Str(Id(notif.id.kind, notif.id.val + 1))

\* The id process_notification passes to mark_processed
MarkedId(notif) == Str(notif.id)

\* What the program's variables hold while no notification is in work
Idle ==
    /\ batch = <<>>
    /\ cur = NoValue
    /\ attempt = 0
    /\ chat_calls = 0
    /\ sleeps = 0
    /\ response = NoValue
    /\ ai_decision = NoValue

\* process_notification starts on notification n, with rest left in the loop
StartOn(n, rest) ==
    /\ cur' = n
    /\ batch' = rest
    /\ attempt' = 0
    /\ chat_calls' = 0
    /\ sleeps' = 0
    /\ response' = NoValue
    /\ ai_decision' = NoValue
    /\ pc' = "analyze"

\* The iteration of run is over and run returns
ExitLoop ==
    /\ cur' = NoValue
    /\ batch' = <<>>
    /\ attempt' = 0
    /\ chat_calls' = 0
    /\ sleeps' = 0
    /\ response' = NoValue
    /\ ai_decision' = NoValue
    /\ pc' = "exited"

\* The iteration of run is over: time.sleep(poll_interval)
GoToSleep ==
    /\ cur' = NoValue
    /\ batch' = <<>>
    /\ attempt' = 0
    /\ chat_calls' = 0
    /\ sleeps' = 0
    /\ response' = NoValue
    /\ ai_decision' = NoValue
    /\ pc' = "sleep"

InitWith(configs) ==
    /\ cfg \in configs
    /\ infractions_file = NoFile
    /\ infractions = Load(infractions_file)
    /\ processed_ids_file = <<>>
    /\ processed_ids = LoadProcessedIds(processed_ids_file)
    /\ server = <<>>
    /\ pc = "start"
    /\ new_notifications = <<>>
    /\ Idle
    /\ last = NoValue
    /\ ret = NoValue

\* connect, called by run
Connect ==
    /\ pc = "start"
    /\ \E ok \in BOOLEAN : pc' = IF ok THEN "poll" ELSE "exited"
    /\ UNCHANGED <<cfg, infractions, infractions_file, processed_ids,
                   processed_ids_file, server, new_notifications, batch, cur,
                   attempt, chat_calls, sleeps, response, ai_decision, last,
                   arg, ret>>

\* Somebody mentions the account.  The program reads the server only in Poll,
\* so a mention arriving during a cycle is one arriving in the sleep after it.
\* One client delivers all its ids as integers or all as strings.
NewMention(authors, kinds, max) ==
    /\ pc \in {"start", "sleep"}
    /\ Len(server) < max
    /\ \E a \in authors, k \in kinds :
          /\ \A i \in 1..Len(server) : server[i].id.kind = k
          /\ server' = <<Notification(k, Len(server) + 1, a)>> \o server
    /\ UNCHANGED <<cfg, infractions, infractions_file, processed_ids,
                   processed_ids_file, pc, new_notifications, batch, cur, attempt,
                   chat_calls, sleeps, response, ai_decision, last, arg, ret>>

\* run: one fetch, the filter, and the start of the for loop
Poll ==
    /\ pc = "poll"
    /\ \A h \in DOMAIN infractions : infractions[h].count < MaxCount
    /\ \E fetch_ok \in BOOLEAN :
          IF ~fetch_ok
          THEN GoToSleep /\ UNCHANGED new_notifications  \* except Exception
          ELSE LET new == NewNotifications(server, processed_ids)
                   todo == Reverse(new)
               IN  /\ new_notifications' = new
                   /\ IF new = <<>>
                      THEN GoToSleep
                      ELSE StartOn(Head(todo), Tail(todo))
    /\ UNCHANGED <<cfg, infractions, infractions_file, processed_ids,
                   processed_ids_file, server, last, arg, ret>>

\* analyze: one pass of the retry loop
AnalyzeAttempt(responses) ==
    /\ pc = "analyze"
    /\ attempt < cfg.max_retries
    /\ \E resp \in responses :
          /\ response' = resp
          /\ chat_calls' = chat_calls + 1
          /\ IF ~AttemptRaises(resp)
             THEN /\ ai_decision' = Decision(resp)
                  /\ pc' = "take_action"
                  /\ UNCHANGED <<attempt, sleeps>>
             ELSE /\ attempt' = attempt + 1
                  /\ sleeps' = IF SleepsAfter(attempt, cfg.max_retries)
                               THEN sleeps + 1 ELSE sleeps
                  /\ UNCHANGED <<ai_decision, pc>>
    /\ UNCHANGED <<cfg, infractions, infractions_file, processed_ids,
                   processed_ids_file, server, new_notifications, batch, cur,
                   last, arg, ret>>

\* analyze: the loop is over, the fail-safe is returned
AnalyzeExhausted ==
    /\ pc = "analyze"
    /\ attempt >= cfg.max_retries
    /\ ai_decision' = FailSafe
    /\ response' = NoValue
    /\ pc' = "take_action"
    /\ UNCHANGED <<cfg, infractions, infractions_file, processed_ids,
                   processed_ids_file, server, new_notifications, batch, cur,
                   attempt, chat_calls, sleeps, last, arg, ret>>

\* What take_action did, as the log and the client saw it
Summary(notif, decision, r) ==
    [id |-> notif.id, acct |-> notif.status.account.acct,
     classification |-> decision.classification,
     confidence |-> decision.confidence,
     gate |-> r.gate, count |-> r.count, warning |-> r.warning,
     action |-> r.action, api |-> r.api, api_ok |-> r.api_ok,
     raised |-> r.raised]

\* process_notification: the call of take_action
TakeAction ==
    /\ pc = "take_action"
    /\ \E api_ok \in BOOLEAN :
          LET r == TakeActionResult(cur.status.account, ai_decision,
                                    cur.status.id, cfg, infractions, api_ok)
          IN  /\ infractions' = r.infractions
              /\ infractions_file' = IF r.saved THEN Save(r.infractions)
                                     ELSE infractions_file
              /\ last' = Summary(cur, ai_decision, r)
              /\ IF r.raised
                 THEN GoToSleep    \* caught by run: except Exception
                 ELSE /\ pc' = "mark"
                      /\ UNCHANGED <<batch, cur, attempt, chat_calls, sleeps,
                                     response, ai_decision>>
    /\ UNCHANGED <<cfg, processed_ids, processed_ids_file, server,
                   new_notifications, arg, ret>>

\* process_notification: the call of mark_processed, and the loop going on
Mark ==
    /\ pc = "mark"
    /\ processed_ids' = MarkProcessed(processed_ids, MarkedId(cur))
    /\ processed_ids_file' = Append(processed_ids_file, FileLine(MarkedId(cur)))
    /\ IF batch = <<>> THEN GoToSleep ELSE StartOn(Head(batch), Tail(batch))
    /\ UNCHANGED <<cfg, infractions, infractions_file, server,
                   new_notifications, last, arg, ret>>

\* time.sleep(poll_interval) returns.  The record of the cycle that is over
\* (last, new_notifications) is dropped: the next cycle overwrites both.
Wake ==
    /\ pc = "sleep"
    /\ pc' = "poll"
    /\ last' = NoValue
    /\ new_notifications' = <<>>
    /\ UNCHANGED <<cfg, infractions, infractions_file, processed_ids,
                   processed_ids_file, server, batch, cur, attempt, chat_calls,
                   sleeps, response, ai_decision, arg, ret>>

Init == InitWith(Configs) /\ arg = NoValue

\* Every setting of the flags and every pair of thresholds of the bounds
AllThresholds == ConfigsOf(1..MaxThreshold, 1..MaxThreshold, {MaxRetries})

Next ==
    \/ Connect
    \/ NewMention({Friend, Troll, Alt}, IdKinds, MaxNotifs)
    \/ Poll
    \/ AnalyzeAttempt(LoopResponses)
    \/ AnalyzeExhausted
    \/ TakeAction
    \/ Mark
    \/ Wake

Spec == Init /\ [][Next]_vars

-----------------------------------------------------------------------------
(* States and steps the properties below speak of *)

Decisions == {Decision(r) : r \in ValidResponses} \cup {FailSafe}

Bystander == "bystander@example.com"

\* A record as add_infraction builds it: count entries, count of them
Record(n) ==
    [count |-> n,
     history |-> [i \in 1..n |-> Entry("MILDLY_NEGATIVE", "stated by the model")]]

\* A ledger holding n infractions of handle h, and one of a bystander or none
Ledger(h, n, other) ==
    [x \in (IF n > 0 THEN {h} ELSE {}) \cup (IF other THEN {Bystander} ELSE {})
        |-> IF x = h THEN Record(n) ELSE Record(1)]

Author == cur.status.account

LedgerUnchanged ==
    /\ infractions' = infractions
    /\ infractions_file' = infractions_file

NothingDone ==
    /\ last'.action = "none"
    /\ last'.api = "none"
    /\ last'.warning = "not_sent"
    /\ ~last'.raised

-----------------------------------------------------------------------------
(* The poll loop: dedup and failures *)

-----------------------------------------------------------------------------
(* The poll loop on consecutive MILDLY_NEGATIVE mentions, of confidence 0.6  *)
(* or more, from one established author who is not allowlisted; every        *)
(* setting of the flags and of the thresholds                                *)

MildResponses ==
    {r \in ValidResponses :
        r.classification = "MILDLY_NEGATIVE" /\ r.confidence >= ConfidenceFloor}

InitMild == InitWith(AllThresholds) /\ arg = NoValue

NextMild ==
    \/ Connect
    \/ NewMention({Troll}, IdKinds, MaxMentions)
    \/ Poll
    \/ AnalyzeAttempt(MildResponses)
    \/ TakeAction
    \/ Mark
    \/ Wake

SpecMild == InitMild /\ [][NextMild]_vars

\* C1: from an empty ledger, whatever the warning flags, the k-th consecutive
\* MILDLY_NEGATIVE mention (confidence >= 0.6) of an established author who is
\* not allowlisted leaves the author's count at k and yields none below
\* mute_threshold, mute from mute_threshold on and block from block_threshold
\* on (mute, mute, block for the thresholds 1 and 3).
C1_KthMentionEscalates ==
    last # NoValue =>
        LET k == last.id.val
        IN  /\ last.count = k
            /\ GetCount(infractions, Troll.acct) = k
            /\ last.action = IF k >= cfg.block_threshold THEN "block"
                             ELSE IF k >= cfg.mute_threshold THEN "mute"
                             ELSE "none"

\* C6: once mark_processed has completed for a notification id, no later poll
\* cycle of the run classifies, acts on or records an infraction for a
\* notification of that id, although every later fetch returns it.
C6_MarkedIsNeverReprocessed ==
    pc \in {"analyze", "take_action", "mark"} =>
        /\ Str(cur.id) \notin Range(processed_ids_file)
        /\ \A i \in 1..Len(batch) : Str(batch[i].id) \notin Range(processed_ids_file)

\* A later cycle at work on a new mention while the fetch still returns a
\* marked one
C6_Witness ==
    /\ pc = "take_action"
    /\ Len(server) = 2
    /\ Str(server[2].id) \in Range(processed_ids_file)
    /\ cur = server[1]
    /\ last = NoValue

\* C7: when a mute, block or warning call fails while a notification of a
\* batch is processed, the id of that notification is still marked processed
\* and the rest of the batch is still processed in the same poll cycle.
C7_FailureDoesNotAbortTheBatch ==
    (last # NoValue /\ (last.raised \/ last.warning # "not_sent" \/ ~last.api_ok)) =>
        IF pc = "sleep"
        THEN \A i \in 1..Len(new_notifications) :
                Str(new_notifications[i].id) \in processed_ids
        ELSE \/ pc = "mark" /\ cur.id = last.id
             \/ Str(last.id) \in processed_ids

-----------------------------------------------------------------------------
(* One analyze call, and the take_action and mark_processed after it, on     *)
(* every max_retries of the bounds and every behaviour of the classifier     *)

InitAnalyze ==
    /\ cfg \in ConfigsOf({MuteThreshold}, {BlockThreshold}, 0..MaxRetries)
    /\ \E a \in Accounts, n \in 0..MaxCount :
          /\ cur = Notification("int", 1, a)
          /\ infractions = Ledger(a.acct, n, FALSE)
    /\ infractions_file = IF infractions = EmptyDict THEN NoFile
                          ELSE Save(infractions)
    /\ processed_ids_file = <<>>
    /\ processed_ids = {}
    /\ server = <<cur>>
    /\ new_notifications = <<cur>>
    /\ batch = <<>>
    /\ pc = "analyze"
    /\ attempt = 0
    /\ chat_calls = 0
    /\ sleeps = 0
    /\ response = NoValue
    /\ ai_decision = NoValue
    /\ last = NoValue
    /\ arg = NoValue
    /\ ret = NoValue

NextAnalyze ==
    \/ AnalyzeAttempt(Responses)
    \/ AnalyzeExhausted
    \/ TakeAction
    \/ Mark

SpecAnalyze == InitAnalyze /\ [][NextAnalyze]_vars

\* The process keeps running: a step that can be taken is taken
SpecAnalyzeFair == SpecAnalyze /\ WF_vars(NextAnalyze)

\* C9: when every one of the max_retries attempts fails, analyze returns
\* NEUTRAL with confidence 0.0, and the notification is processed without a
\* mute, block or warning and without an infraction recorded.
C9_ExhaustedIsSafe ==
    [][ /\ (pc = "analyze" /\ attempt = cfg.max_retries)
            => (/\ pc' = "take_action"
                /\ ai_decision'.classification = "NEUTRAL"
                /\ ai_decision'.confidence = 0)
        /\ (pc = "take_action" /\ attempt = cfg.max_retries)
            => (LedgerUnchanged /\ NothingDone /\ pc' = "mark") ]_vars

\* Every attempt failed on a mention of an author with a history at the block
\* threshold, live: nothing done
C9_Witness ==
    /\ pc = "mark"
    /\ cfg.max_retries = 2
    /\ chat_calls = 2
    /\ attempt = 2
    /\ last.gate = "neutral"
    /\ last.confidence = 0
    /\ last.acct = Troll.acct
    /\ GetCount(infractions, Troll.acct) = BlockThreshold
    /\ ~cfg.dry_run

IsValid(resp) ==
    /\ resp # NoValue
    /\ resp.transport_ok
    /\ resp.json_ok
    /\ resp.has_keys
    /\ resp.classification \in {"NEUTRAL", "MILDLY_NEGATIVE", "SEVERELY_NEGATIVE"}
    /\ resp.numeric

InAnalyze == pc \in {"analyze", "take_action", "mark"}

C10_Bounded ==
    InAnalyze =>
        /\ chat_calls <= cfg.max_retries
        /\ IsValid(response) =>
              /\ pc # "analyze"
              /\ ai_decision.classification = response.classification
              /\ ai_decision.confidence = response.confidence
        /\ pc = "analyze" =>
              /\ chat_calls = attempt
              /\ sleeps = IF chat_calls < cfg.max_retries THEN chat_calls
                          ELSE IF chat_calls = 0 THEN 0 ELSE chat_calls - 1
        /\ pc # "analyze" =>
              /\ ai_decision # NoValue
              /\ sleeps = IF chat_calls = 0 THEN 0 ELSE chat_calls - 1

\* C10: whatever the classifier does, one analyze call ends and returns a
\* decision, calls the classifier at most max_retries times, stops at the
\* first valid response, and waits the retry delay only between two attempts.
C10_AnalyzeTerminates ==
    /\ []C10_Bounded
    /\ (pc = "analyze") ~> (pc = "take_action")

\* The first attempt failed, the delay was taken once, the second answer was
\* valid and is returned
C10_Witness ==
    /\ pc = "take_action"
    /\ chat_calls = 2
    /\ sleeps = 1
    /\ IsValid(response)
    /\ ai_decision.classification = "MILDLY_NEGATIVE"

-----------------------------------------------------------------------------
(* One take_action call and the mark_processed after it, on every author,    *)
(* decision, configuration and ledger of the bounds                          *)

InitTakeAction ==
    /\ cfg \in AllThresholds
    /\ \E a \in Accounts, n \in 0..MaxCount, other \in BOOLEAN :
          /\ cur = Notification("int", 1, a)
          /\ infractions = Ledger(a.acct, n, other)
    /\ infractions_file = IF infractions = EmptyDict THEN NoFile
                          ELSE Save(infractions)
    /\ processed_ids_file = <<>>
    /\ processed_ids = {}
    /\ server = <<cur>>
    /\ new_notifications = <<cur>>
    /\ batch = <<>>
    /\ pc = "take_action"
    /\ ai_decision \in Decisions
    /\ IF ai_decision = FailSafe
       THEN /\ response = NoValue
            /\ attempt = cfg.max_retries
            /\ chat_calls = cfg.max_retries
            /\ sleeps = cfg.max_retries - 1
       ELSE /\ response \in ValidResponses
            /\ ai_decision = Decision(response)
            /\ attempt = 0
            /\ chat_calls = 1
            /\ sleeps = 0
    /\ last = NoValue
    /\ arg = NoValue
    /\ ret = NoValue

NextTakeAction ==
    \/ TakeAction
    \/ Mark

SpecTakeAction == InitTakeAction /\ [][NextTakeAction]_vars

\* C3: a take_action call whose decision has confidence < 0.6 executes no
\* mute, no block and no warning and leaves the ledger unchanged in memory and
\* on disk, whatever the author, classification, ledger and configuration;
\* a confidence of exactly 0.6 passes the gate.
C3_LowConfidenceDoesNothing ==
    [][ /\ (pc = "take_action" /\ ai_decision.confidence < 60)
            => (LedgerUnchanged /\ NothingDone)
        /\ (/\ pc = "take_action"
            /\ ai_decision.confidence = 60
            /\ ai_decision.classification \in Negative
            /\ Author.acct \notin Allowlist)
            => (/\ last'.gate \in {"new_account", "escalation"}
                /\ last'.action = "block" \/ infractions' # infractions) ]_vars

\* A severe insult judged at 0.59 by an author with a history, live and with
\* warnings on: gated
C3_Witness ==
    /\ last # NoValue
    /\ last.gate = "low_confidence"
    /\ last.classification = "SEVERELY_NEGATIVE"
    /\ last.confidence = 59
    /\ last.acct = Troll.acct
    /\ GetCount(infractions, Troll.acct) >= cfg.block_threshold
    /\ cfg.send_warnings
    /\ ~cfg.dry_run

\* C4: for an author whose handle is in the allowlist no mute, block or
\* warning is executed and no infraction is recorded, whatever the
\* classification, the confidence, the account age and the history.
C4_AllowlistedIsNeverActedOn ==
    [][ (pc = "take_action" /\ Author.acct \in Allowlist)
            => (LedgerUnchanged /\ NothingDone) ]_vars

\* An allowlisted new account with a history at the block threshold, judged
\* severely negative at 0.9 while new accounts are blocked at once: let go
C4_Witness ==
    /\ last # NoValue
    /\ last.gate = "allowlisted"
    /\ last.acct = Friend.acct
    /\ last.classification = "SEVERELY_NEGATIVE"
    /\ last.confidence = 90
    /\ IsNewAccount(Friend, cfg)
    /\ cfg.new_account_instant_block
    /\ ~cfg.dry_run
    /\ GetCount(infractions, Friend.acct) >= cfg.block_threshold

\* C5: for an author not allowlisted whose account age is <= new_account_days,
\* with new_account_instant_block on and a MILDLY_NEGATIVE or SEVERELY_NEGATIVE
\* classification of confidence >= 0.6, the action is block (sent to the
\* client unless dry_run) whatever the thresholds and the history, and the
\* ledger is unchanged.
C5_NewAccountIsBlockedAtOnce ==
    [][ (/\ pc = "take_action"
         /\ Author.acct \notin Allowlist
         /\ Author.created_at.parses
         /\ Today - Author.created_at.day <= cfg.new_account_days
         /\ cfg.new_account_instant_block
         /\ ai_decision.classification \in Negative
         /\ ai_decision.confidence >= 60)
            => (/\ last'.gate = "new_account"
                /\ last'.action = "block"
                /\ last'.api = IF cfg.dry_run THEN "dry_run" ELSE "account_block"
                /\ last'.warning = "not_sent"
                /\ ~last'.raised
                /\ LedgerUnchanged) ]_vars

\* An account exactly new_account_days old, without a record, mildly negative
\* under a mute threshold above 1: blocked, and still without a record
C5_Witness ==
    /\ last # NoValue
    /\ last.gate = "new_account"
    /\ last.acct = Alt.acct
    /\ last.classification = "MILDLY_NEGATIVE"
    /\ last.action = "block"
    /\ last.api = "account_block"
    /\ cfg.mute_threshold > 1
    /\ GetCount(infractions, Alt.acct) = 0
    /\ Alt.acct \notin DOMAIN infractions_file.data

\* C8: a failure of the warning of an event never prevents the mute or block
\* decided for that event from being executed.
C8_WarningFailureKeepsTheAction ==
    (last # NoValue /\ last.warning # "not_sent") =>
        LET action == DetermineAction(last.classification, last.count, cfg)
        IN  action # "none" =>
                last.api = IF cfg.dry_run THEN "dry_run"
                           ELSE IF action = "mute" THEN "account_mute"
                           ELSE "account_block"

-----------------------------------------------------------------------------
(* _determine_action called on its own, on every classification, count and  *)
(* pair of thresholds of the bounds                                         *)

InitDetermine ==
    /\ InitWith(AllThresholds)
    /\ arg \in [classification : Classifications,
                 infraction_count : 0..(MaxThreshold + 1)]

UNCHANGED_loop ==
    UNCHANGED <<cfg, infractions, infractions_file, processed_ids,
                processed_ids_file, server, pc, new_notifications, batch, cur,
                attempt, chat_calls, sleeps, response, ai_decision, last>>

CallDetermineAction ==
    /\ arg # NoValue
    /\ ret = NoValue
    /\ ret' = [action |-> DetermineAction(arg.classification,
                                          arg.infraction_count, cfg)]
    /\ UNCHANGED arg
    /\ UNCHANGED_loop

SpecDetermine == InitDetermine /\ [][CallDetermineAction]_vars

\* The table of the escalation policy, by outcome
ReferenceAction(classification, count, mute, block) ==
    IF count >= block THEN "block"
    ELSE IF classification = "SEVERELY_NEGATIVE" \/ count >= mute THEN "mute"
    ELSE "none"

-----------------------------------------------------------------------------
(* The InfractionTracker called on its own: add_infraction, get_count and    *)
(* reset in any order on two handles, the process dying between two calls    *)
(* and a new process loading the file.  arg is the latest event.  While pc   *)
(* is "crashed", infractions is what the dead process showed last.           *)

Handles == {Troll.acct, Bystander}

Reason == "stated by the model"

Event(op, user_acct) == [op |-> op, user_acct |-> user_acct]

\* The file after a process died inside _save: open(..., 'w') not reached,
\* the file truncated and not or not wholly written, or the dump complete
SaveOutcomes == {"unopened", "truncated", "written"}

InterruptedSave(file, inf, outcome) ==
    CASE outcome = "unopened" -> file
      [] outcome = "truncated" -> [exists |-> TRUE, valid |-> FALSE,
                                   data |-> EmptyDict]
      [] outcome = "written" -> Save(inf)

UNCHANGED_tracker ==
    UNCHANGED <<cfg, processed_ids, processed_ids_file, server,
                new_notifications, batch, cur, attempt, chat_calls, sleeps,
                response, ai_decision, last>>

InitLedger ==
    /\ InitWith(Configs)
    /\ arg = Event("init", "")

\* add_infraction(user_acct, classification, reason)
CallAddInfraction ==
    /\ pc = "start"
    /\ \E h \in Handles, c \in Negative :
          /\ GetCount(infractions, h) < MaxCount
          /\ infractions' = AddInfraction(infractions, h, c, Reason)
          /\ infractions_file' = Save(infractions')
          /\ arg' = Event("add_infraction", h)
    /\ ret' = NoValue
    /\ UNCHANGED pc
    /\ UNCHANGED_tracker

\* get_count(user_acct)
CallGetCount ==
    /\ pc = "start"
    /\ \E h \in Handles :
          /\ ret' = [count |-> GetCount(infractions, h)]
          /\ arg' = Event("get_count", h)
    /\ UNCHANGED <<infractions, infractions_file, pc>>
    /\ UNCHANGED_tracker

\* reset(user_acct): an unknown handle changes nothing and saves nothing
CallReset ==
    /\ pc = "start"
    /\ \E h \in Handles :
          /\ infractions' = Reset(infractions, h)
          /\ infractions_file' = IF h \in DOMAIN infractions
                                 THEN Save(infractions')
                                 ELSE infractions_file
          /\ arg' = Event("reset", h)
    /\ ret' = NoValue
    /\ UNCHANGED pc
    /\ UNCHANGED_tracker

\* The process dies between two calls of the tracker
Crash ==
    /\ pc = "start"
    /\ pc' = "crashed"
    /\ UNCHANGED <<infractions, infractions_file, arg, ret>>
    /\ UNCHANGED_tracker

\* The process dies inside the _save of add_infraction or of reset
CrashInSave ==
    /\ pc = "start"
    /\ \E h \in Handles, outcome \in SaveOutcomes :
          \/ \E c \in Negative :
                /\ GetCount(infractions, h) < MaxCount
                /\ infractions_file' =
                      InterruptedSave(infractions_file,
                          AddInfraction(infractions, h, c, Reason), outcome)
                /\ arg' = Event("add_infraction", h)
          \/ /\ h \in DOMAIN infractions
             /\ infractions_file' =
                   InterruptedSave(infractions_file, Reset(infractions, h),
                                   outcome)
             /\ arg' = Event("reset", h)
    /\ pc' = "crashed"
    /\ UNCHANGED <<infractions, ret>>
    /\ UNCHANGED_tracker

\* A new process: InfractionTracker.__init__ loads the file
Restart ==
    /\ pc = "crashed"
    /\ infractions' = Load(infractions_file)
    /\ pc' = "start"
    /\ arg' = [op |-> "restart", after |-> arg.op, user_acct |-> arg.user_acct]
    /\ ret' = NoValue
    /\ UNCHANGED infractions_file
    /\ UNCHANGED_tracker

NextLedger ==
    \/ CallAddInfraction
    \/ CallGetCount
    \/ CallReset
    \/ Crash
    \/ Restart

SpecLedger == InitLedger /\ [][NextLedger]_vars

NextLedgerCrash ==
    \/ NextLedger
    \/ CrashInSave

SpecLedgerCrash == InitLedger /\ [][NextLedgerCrash]_vars

\* Was reset called for handle h in the step that led here, or in the call
\* the process died in before it was started again
ResetCalled(h) ==
    /\ arg.user_acct = h
    /\ \/ arg.op = "reset"
       \/ arg.op = "restart" /\ arg.after = "reset"

\* C11: over add_infraction, get_count and reset calls, crashes (also inside
\* _save) and restarts, the count of a handle goes down in a step only when
\* reset was called for that handle.
C11_CountNeverDecreases ==
    [][\A h \in Handles :
          GetCount(infractions', h) < GetCount(infractions, h) => ResetCalled(h)']_vars

IsPrefix(s, t) == Len(s) <= Len(t) /\ \A i \in 1..Len(s) : s[i] = t[i]

C13_SavedLedgerIsTheLedger ==
    (arg.op = "add_infraction" \/ (arg.op = "restart" /\ arg.after = "add_infraction")) =>
        /\ infractions_file = Save(infractions)
        /\ Load(infractions_file) = infractions
        /\ GetCount(infractions, arg.user_acct) >= 1

\* Started again after a crash that followed add_infraction, with the
\* infraction of that handle and the record of the other handle loaded
C13_Witness ==
    /\ pc = "start"
    /\ arg.op = "restart"
    /\ arg.after = "add_infraction"
    /\ GetCount(infractions, arg.user_acct) = 2
    /\ \E h \in Handles \ {arg.user_acct} : GetCount(infractions, h) = 1

-----------------------------------------------------------------------------
(* The order of the steps of process_notification, in the poll loop *)

\* C14: the dedup store (the set and the file) changes only by the one id of
\* the notification in work being added, and only after analyze has returned
\* a decision for that notification and take_action has returned for it
\* without raising.
C14_MarkedAfterTheAction ==
    [][(processed_ids' # processed_ids \/ processed_ids_file' # processed_ids_file) =>
          /\ pc = "mark"
          /\ ai_decision # NoValue
          /\ last # NoValue
          /\ last.id = cur.id
          /\ ~last.raised
          /\ last.classification = ai_decision.classification
          /\ processed_ids' = processed_ids \cup {Str(cur.id)}
          /\ processed_ids_file' = Append(processed_ids_file, Str(cur.id))]_vars

\* An id marked after the mute attempted for its notification had failed
C14_Witness ==
    /\ last # NoValue
    /\ last.api = "account_mute"
    /\ ~last.api_ok
    /\ Str(last.id) \in processed_ids
    /\ Str(last.id) \in Range(processed_ids_file)

-----------------------------------------------------------------------------
(* The poll loop under fair scheduling: every step of the process that can  *)
(* be taken is taken, the sleep ends, and a fetch that is tried again and    *)
(* again succeeds again and again                                            *)

\* A fetch that succeeded and returned something not yet processed
PollFetched == Poll /\ new_notifications' # <<>>

\* The loop with one author, established and not allowlisted
NextFair ==
    \/ Connect
    \/ NewMention({Troll}, IdKinds, MaxNotifs)
    \/ Poll
    \/ AnalyzeAttempt(LoopResponses)
    \/ AnalyzeExhausted
    \/ TakeAction
    \/ Mark
    \/ Wake

SpecFair ==
    /\ Init
    /\ [][NextFair]_vars
    /\ WF_vars(AnalyzeAttempt(LoopResponses))
    /\ WF_vars(AnalyzeExhausted)
    /\ WF_vars(TakeAction)
    /\ WF_vars(Mark)
    /\ WF_vars(Wake)
    /\ SF_vars(PollFetched)

\* The mentions the server can hold
Mentions == {Notification(k, n, Troll) : k \in IdKinds, n \in 1..MaxNotifs}

-----------------------------------------------------------------------------
(* take_action called twice for the same author, decision and              *)
(* configuration: a first call on a ledger without a record of the author,  *)
(* reset(author) or nothing in between, and a second call some days later.  *)
(* arg is the ledger before the first call, last is what the first call did *)
(* and ret what the second did.                                             *)

\* Days between the two calls
LaterDays == {0, 1, 25}

\* take_action reads the clock only in account_age = (now - created_at).days:
\* an author met days later is the author created that many days earlier
Aged(author, days) ==
    IF author.created_at.parses
    THEN [author EXCEPT !.created_at = Date(author.created_at.day - days)]
    ELSE author

InitTwice ==
    /\ cfg \in AllThresholds
    /\ \E a \in Accounts, other \in BOOLEAN :
          /\ cur = Notification("int", 1, a)
          /\ infractions = Ledger(a.acct, 0, other)
    /\ infractions_file = IF infractions = EmptyDict THEN NoFile
                          ELSE Save(infractions)
    /\ processed_ids_file = <<>>
    /\ processed_ids = {}
    /\ server = <<cur>>
    /\ new_notifications = <<cur>>
    /\ batch = <<>>
    /\ pc = "first_call"
    /\ ai_decision \in Decisions
    /\ response = NoValue
    /\ attempt = 0
    /\ chat_calls = 0
    /\ sleeps = 0
    /\ last = NoValue
    /\ arg = [ledger |-> infractions]
    /\ ret = NoValue

UNCHANGED_twice ==
    UNCHANGED <<cfg, processed_ids, processed_ids_file, server,
                new_notifications, batch, cur, attempt, chat_calls, sleeps,
                response, ai_decision, arg>>

\* The first take_action call
FirstCall ==
    /\ pc = "first_call"
    /\ \E api_ok \in BOOLEAN :
          LET r == TakeActionResult(Author, ai_decision, cur.status.id, cfg,
                                    infractions, api_ok)
          IN  /\ infractions' = r.infractions
              /\ infractions_file' = IF r.saved THEN Save(r.infractions)
                                     ELSE infractions_file
              /\ last' = Summary(cur, ai_decision, r)
    /\ pc' = "between"
    /\ UNCHANGED ret
    /\ UNCHANGED_twice

\* reset(author) between the two calls
Amnesty ==
    /\ pc = "between"
    /\ Author.acct \in DOMAIN infractions
    /\ infractions' = Reset(infractions, Author.acct)
    /\ infractions_file' = Save(infractions')
    /\ UNCHANGED <<pc, last, ret>>
    /\ UNCHANGED_twice

\* The second take_action call
SecondCall ==
    /\ pc = "between"
    /\ \E days \in LaterDays, api_ok \in BOOLEAN :
          LET r == TakeActionResult(Aged(Author, days), ai_decision,
                                    cur.status.id, cfg, infractions, api_ok)
          IN  /\ infractions' = r.infractions
              /\ infractions_file' = IF r.saved THEN Save(r.infractions)
                                     ELSE infractions_file
              /\ ret' = [ledger_before |-> infractions, days |-> days,
                         gate |-> r.gate, action |-> r.action]
    /\ pc' = "called_twice"
    /\ UNCHANGED last
    /\ UNCHANGED_twice

NextTwice ==
    \/ FirstCall
    \/ Amnesty
    \/ SecondCall

SpecTwice == InitTwice /\ [][NextTwice]_vars

\* Both calls are over and the second met the ledger the first had met
CalledTwiceOnOneLedger ==
    /\ pc = "called_twice"
    /\ ret.ledger_before = arg.ledger

\* Was the account on the same side of new_account_days at both calls
SameVerdict ==
    \/ ~Author.created_at.parses
    \/ (Today - Author.created_at.day <= cfg.new_account_days)
          = (Today - Author.created_at.day + ret.days <= cfg.new_account_days)

-----------------------------------------------------------------------------
(* The poll loop with a stop signal: KeyboardInterrupt raised in the try    *)
(* block is caught by run, which breaks; raised in time.sleep it leaves run *)
(* uncaught.  Either way the loop is over.                                  *)

LoopStates == {"poll", "analyze", "take_action", "mark", "sleep"}

Working == {"analyze", "take_action", "mark"}

Interrupt ==
    /\ pc \in LoopStates
    /\ pc' = "stopped"
    /\ UNCHANGED <<cfg, infractions, infractions_file, processed_ids,
                   processed_ids_file, server, new_notifications, batch, cur,
                   attempt, chat_calls, sleeps, response, ai_decision, last,
                   arg, ret>>

\* The loop with one author, established and not allowlisted, and a client
\* that delivers ids as strings
NextStop ==
    \/ Connect
    \/ NewMention({Troll}, {"str"}, MaxNotifs)
    \/ Poll
    \/ AnalyzeAttempt(LoopResponses)
    \/ AnalyzeExhausted
    \/ TakeAction
    \/ Mark
    \/ Wake
    \/ Interrupt

\* Live mode: the client's calls are made, and can fail
InitStop ==
    /\ InitWith({c \in Configs : ~c.dry_run})
    /\ arg = NoValue

SpecStop ==
    /\ InitStop
    /\ [][NextStop]_vars
    /\ WF_vars(AnalyzeAttempt(LoopResponses))
    /\ WF_vars(AnalyzeExhausted)
    /\ WF_vars(TakeAction)
    /\ WF_vars(Mark)
    /\ WF_vars(Wake)
    /\ SF_vars(PollFetched)

\* C17: once connected, the loop is left only by the stop signal; a fetch
\* that fails and a take_action that raises are followed by the sleep; the
\* work on a batch always ends in the sleep and the sleep in the next fetch,
\* unless the stop signal comes first.
C17_OnlyTheStopSignalEndsTheLoop ==
    /\ [][(pc \in LoopStates /\ pc' \notin LoopStates) => Interrupt]_vars
    /\ [][(pc = "poll" /\ pc' # "analyze") => pc' \in {"sleep", "stopped"}]_vars
    /\ [][(pc = "take_action" /\ pc' # "mark") => pc' \in {"sleep", "stopped"}]_vars
    /\ (pc \in Working) ~> (pc \in {"sleep", "stopped"})
    /\ (pc = "sleep") ~> (pc \in {"poll", "stopped"})

\* The next poll cycle has begun after a cycle that take_action ended by
\* raising: the ledger holds the infraction and the id is not marked
C17_Witness ==
    /\ pc = "analyze"
    /\ GetCount(infractions, Troll.acct) = 1
    /\ processed_ids = {}
    /\ last = NoValue

-----------------------------------------------------------------------------
(* The warning of take_action, on every author, decision, configuration     *)
(* and ledger of the bounds                                                 *)

\* C18: with send_warnings on, a take_action call sends a warning exactly
\* when its outcome is mute or block and the author is not a new account
\* under new_account_no_warning; an outcome of none sends no warning.
C18_WarningExactlyWithAnAction ==
    [][ (pc = "take_action" /\ cfg.send_warnings /\ Truthy(cur.status.id)) =>
           ((last'.warning = "sent") =
              (/\ last'.action \in {"mute", "block"}
               /\ ~(IsNewAccount(Author, cfg) /\ cfg.new_account_no_warning))) ]_vars

-----------------------------------------------------------------------------
(* analyze on a classifier that also answers with confidences outside       *)
(* [0.0, 1.0]                                                               *)

\* Well-formed JSON with the three keys and a known classification, whose
\* confidence is a number below 0.0 or above 1.0
OutOfRangeResponses ==
    {Response(TRUE, TRUE, TRUE, c, TRUE, f) :
        c \in Classifications, f \in {-10, 150}}

NextClassifier ==
    \/ AnalyzeAttempt(Responses \cup OutOfRangeResponses)
    \/ AnalyzeExhausted
    \/ TakeAction
    \/ Mark

SpecClassifier == InitAnalyze /\ [][NextClassifier]_vars

\* C19: what analyze returns has one of the three classifications and a
\* confidence within [0.0, 1.0], and is either the fail-safe or the response
\* of the last attempt; a response of any other shape is not returned.
C19_ReturnedResultIsWellFormed ==
    pc = "take_action" =>
        /\ ai_decision.classification \in Classifications
        /\ ai_decision.confidence \in 0..100
        /\ \/ ai_decision = FailSafe /\ response = NoValue
           \/ /\ response # NoValue
              /\ ~AttemptRaises(response)
              /\ ai_decision = Decision(response)

\* Does a take_action call on the notification in work get past the NEUTRAL,
\* confidence, allowlist and new-account gates
PassesTheGates ==
    /\ pc = "take_action"
    /\ ai_decision.classification \in Negative
    /\ ai_decision.confidence >= ConfidenceFloor
    /\ Author.acct \notin Allowlist
    /\ ~(IsNewAccount(Author, cfg) /\ cfg.new_account_instant_block)

\* C20: a take_action call that passes the gates appends one entry to the
\* history of the author's handle and adds 1 to its count, leaves every other
\* record as it was, saves the ledger, and decides the action that
\* _determine_action gives for the count after the increment.
C20_OneInfractionPerCall ==
    [][ PassesTheGates =>
          LET acct == Author.acct
              before == IF acct \in DOMAIN infractions
                        THEN infractions[acct]
                        ELSE [count |-> 0, history |-> <<>>]
          IN  /\ DOMAIN infractions' = DOMAIN infractions \cup {acct}
              /\ infractions'[acct].count = before.count + 1
              /\ Len(infractions'[acct].history) = Len(before.history) + 1
              /\ IsPrefix(before.history, infractions'[acct].history)
              /\ \A h \in DOMAIN infractions \ {acct} :
                    infractions'[h] = infractions[h]
              /\ infractions_file' = Save(infractions')
              /\ last'.count = before.count + 1
              /\ last'.action = DetermineAction(ai_decision.classification,
                                                before.count + 1, cfg) ]_vars

-----------------------------------------------------------------------------
(* The order of the for loop of run *)

\* C21: while a notification of a fetch is in work, it is the oldest of the
\* fetch that is not marked: every older one of the fetch is marked, no
\* newer one is, and the newer ones wait in fetch order reversed.
C21_OldestFirstOneAtATime ==
    pc \in Working =>
        \E i \in 1..Len(new_notifications) :
            /\ new_notifications[i] = cur
            /\ Len(batch) = i - 1
            /\ \A k \in 1..Len(batch) : batch[k] = new_notifications[i - k]
            /\ \A j \in 1..Len(new_notifications) :
                  (Str(new_notifications[j].id) \in Range(processed_ids_file))
                      = (j > i)

\* The newer of two fetched mentions is acted on after the older one was
\* acted on and marked
C21_Witness ==
    /\ pc = "mark"
    /\ Len(new_notifications) = 2
    /\ cur = new_notifications[1]
    /\ cur.id.val > new_notifications[2].id.val
    /\ last.id = cur.id
    /\ Str(new_notifications[2].id) \in Range(processed_ids_file)

-----------------------------------------------------------------------------
(* The stop signal and the notification in work *)

\* C22: when the stop signal has ended the loop, a notification whose
\* take_action returned with an infraction recorded or a mute or block call
\* made has its id in the processed file.
C22_StopLeavesNothingHalfDone ==
    (pc = "stopped" /\ last # NoValue /\ ~last.raised
        /\ (last.gate = "escalation" \/ last.api \in {"account_mute", "account_block"}))
      => Str(last.id) \in Range(processed_ids_file)

-----------------------------------------------------------------------------
(* reset called on its own *)

\* C23: a reset(h) call leaves no record of h, so that its count is 0, in
\* memory and in the file; the record of every other handle is as before;
\* and when h had no record, neither the ledger nor the file changes.
C23_ResetRemovesOneRecord ==
    [][ (pc = "start" /\ pc' = "start" /\ arg'.op = "reset") =>
          LET h == arg'.user_acct
          IN  /\ h \notin DOMAIN infractions'
              /\ GetCount(infractions', h) = 0
              /\ GetCount(Load(infractions_file'), h) = 0
              /\ DOMAIN infractions' = DOMAIN infractions \ {h}
              /\ \A g \in DOMAIN infractions' : infractions'[g] = infractions[g]
              /\ Load(infractions_file') = infractions'
              /\ h \notin DOMAIN infractions =>
                    /\ infractions' = infractions
                    /\ infractions_file' = infractions_file ]_vars

\* The only record of the ledger was reset: the file holds an empty ledger
C23_Witness ==
    /\ pc = "start"
    /\ arg.op = "reset"
    /\ infractions = EmptyDict
    /\ infractions_file.exists
    /\ infractions_file.data = EmptyDict

-----------------------------------------------------------------------------
(* The poll loop with restarts: the process is killed between two steps and *)
(* started again, and main builds the tracker and the processor from their  *)
(* files.  arg tells whether the process runs after a restart.              *)

KillAndStart ==
    /\ pc # "start"
    /\ infractions' = Load(infractions_file)
    /\ processed_ids' = LoadProcessedIds(processed_ids_file)
    /\ pc' = "start"
    /\ new_notifications' = <<>>
    /\ cur' = NoValue
    /\ batch' = <<>>
    /\ attempt' = 0
    /\ chat_calls' = 0
    /\ sleeps' = 0
    /\ response' = NoValue
    /\ ai_decision' = NoValue
    /\ last' = NoValue
    /\ arg' = Event("restart", "")
    /\ UNCHANGED <<cfg, infractions_file, processed_ids_file, server, ret>>

NextRestart ==
    \/ NextFair
    \/ KillAndStart

SpecRestart == Init /\ [][NextRestart]_vars

\* C24: every id of the processed file is in the set of the running process,
\* before and after a restart, so that is_processed answers True for every
\* fetched notification whose id was marked, and no such notification is in
\* work.
C24_MarkedSurvivesRestart ==
    /\ Range(processed_ids_file) \subseteq processed_ids
    /\ \A i \in 1..Len(server) :
          Str(server[i].id) \in Range(processed_ids_file)
              => IsProcessed(processed_ids, server[i].id)
    /\ pc \in Working => Str(cur.id) \notin Range(processed_ids_file)

\* After a restart the fetch returns a mention whose integer id was marked
\* before it, and nothing but that id is in the set
C24_Witness ==
    /\ arg = Event("restart", "")
    /\ pc = "poll"
    /\ Len(server) = 1
    /\ server[1].id.kind = "int"
    /\ processed_ids_file = <<Str(server[1].id)>>
    /\ processed_ids = {Str(server[1].id)}

-----------------------------------------------------------------------------
(* The severity of the decided action as the count grows *)

Severity(action) ==
    CASE action = "none" -> 0
      [] action = "mute" -> 1
      [] action = "block" -> 2

\* C25: under every pair of thresholds and for each classification the
\* action _determine_action decides does not get milder as the count grows,
\* and a take_action call that passes the gates for an author whose count
\* has reached block_threshold decides block.
C25_SeverityNeverDecreases ==
    /\ [](\A c \in Classifications, m \in 0..MaxCount, n \in 0..MaxCount :
             m <= n => Severity(DetermineAction(c, m, cfg))
                          <= Severity(DetermineAction(c, n, cfg)))
    /\ [][ (PassesTheGates /\ GetCount(infractions, Author.acct) >= cfg.block_threshold)
              => last'.action = "block" ]_vars

-----------------------------------------------------------------------------
(* Infractions and notification ids, with one author *)

\* C26: every infraction of the ledger was caused by another notification
\* id: the one author of the mentions has at most as many infractions as
\* the server holds mentions.
C26_OneInfractionPerId ==
    GetCount(infractions, Troll.acct) <= Len(server)

-----------------------------------------------------------------------------
(* dry_run in the three generations of the filter: take_action of v4, and   *)
(* take_action of mastodon_filter_ollama_v2.py and the block of the loop of *)
(* mastodon_filter_ollama.py called on the same author, with DRY_RUN set as *)
(* dry_run of the configuration.  ret is what the older script did.         *)

\* v2 take_action: allowlist, then mute for MILDLY_NEGATIVE and block for
\* SEVERELY_NEGATIVE; the client's calls are in no try block
TakeActionV2(author, decision, dry_run, api_ok) ==
    IF author.acct \in Allowlist
    THEN [script |-> "v2", api |-> "none", raised |-> FALSE]
    ELSE IF decision.classification = "MILDLY_NEGATIVE"
    THEN IF ~dry_run
         THEN [script |-> "v2", api |-> "account_mute", raised |-> ~api_ok]
         ELSE [script |-> "v2", api |-> "dry_run", raised |-> FALSE]
    ELSE IF decision.classification = "SEVERELY_NEGATIVE"
    THEN IF ~dry_run
         THEN [script |-> "v2", api |-> "account_block", raised |-> ~api_ok]
         ELSE [script |-> "v2", api |-> "dry_run", raised |-> FALSE]
    ELSE [script |-> "v2", api |-> "none", raised |-> FALSE]

\* v1 main: the block of an author whose post the analyzer called negative
BlockV1(is_negative, dry_run, api_ok) ==
    IF is_negative
    THEN IF ~dry_run
         THEN [script |-> "v1", api |-> "account_block", raised |-> FALSE,
               api_ok |-> api_ok]    \* a failure is caught and printed
         ELSE [script |-> "v1", api |-> "dry_run", raised |-> FALSE]
    ELSE [script |-> "v1", api |-> "none", raised |-> FALSE]

UNCHANGED_older ==
    UNCHANGED <<cfg, infractions, infractions_file, processed_ids,
                processed_ids_file, server, pc, new_notifications, batch, cur,
                attempt, chat_calls, sleeps, response, ai_decision, last, arg>>

CallTakeActionV2 ==
    /\ pc = "take_action"
    /\ ret = NoValue
    /\ \E api_ok \in BOOLEAN :
          ret' = TakeActionV2(Author, ai_decision, cfg.dry_run, api_ok)
    /\ UNCHANGED_older

CallBlockV1 ==
    /\ pc = "take_action"
    /\ ret = NoValue
    /\ \E is_negative \in BOOLEAN, api_ok \in BOOLEAN :
          ret' = BlockV1(is_negative, cfg.dry_run, api_ok)
    /\ UNCHANGED_older

NextDryRun ==
    \/ TakeAction
    \/ Mark
    \/ CallTakeActionV2
    \/ CallBlockV1

SpecDryRun == InitTakeAction /\ [][NextDryRun]_vars

ClientCalls == {"account_mute", "account_block"}

\* C27: with dry_run on, no take_action call of v4 and no call of the two
\* older scripts makes an account_mute or account_block call.
C27_DryRunCallsNothing ==
    cfg.dry_run =>
        /\ last # NoValue => last.api \notin ClientCalls
        /\ ret # NoValue => ret.api \notin ClientCalls

\* Under dry_run v4 decided the block of a new account and an older script
\* would have acted, and neither called the client
C27_Witness ==
    /\ cfg.dry_run
    /\ last # NoValue
    /\ last.gate = "new_account"
    /\ last.action = "block"
    /\ last.api = "dry_run"
    /\ ret # NoValue
    /\ ret.api = "dry_run"

-----------------------------------------------------------------------------
(* The first-generation script, mastodon_filter_ollama.py: its poll loop    *)
(* with restarts.  The set holds the ids as the client delivered them, the  *)
(* file holds str(id), and a start loads the lines of the file.             *)

\* The list comprehension of main: n['id'] not in processed_ids
NewNotificationsV1(notifications, ids) ==
    SelectSeq(notifications, LAMBDA n : n.id \notin ids)

\* main: one fetch, the filter, and the start of the for loop
PollV1 ==
    /\ pc = "poll"
    /\ \E fetch_ok \in BOOLEAN :
          IF ~fetch_ok
          THEN GoToSleep /\ UNCHANGED new_notifications
          ELSE LET new == NewNotificationsV1(server, processed_ids)
                   todo == Reverse(new)
               IN  /\ new_notifications' = new
                   /\ IF new = <<>>
                      THEN GoToSleep
                      ELSE StartOn(Head(todo), Tail(todo))
    /\ UNCHANGED <<cfg, infractions, infractions_file, processed_ids,
                   processed_ids_file, server, last, arg, ret>>

\* main: the body of the for loop on one notification
ProcessV1 ==
    /\ pc = "analyze"
    /\ \E is_negative \in BOOLEAN, api_ok \in BOOLEAN :
          last' = [id |-> cur.id] @@ BlockV1(is_negative, cfg.dry_run, api_ok)
    /\ processed_ids' = processed_ids \cup {cur.id}
    /\ processed_ids_file' = Append(processed_ids_file, Str(cur.id))
    /\ IF batch = <<>> THEN GoToSleep ELSE StartOn(Head(batch), Tail(batch))
    /\ UNCHANGED <<cfg, infractions, infractions_file, server,
                   new_notifications, arg, ret>>

\* The script is killed between two steps and started again, as long as the
\* file has not outgrown the mentions
RestartV1 ==
    /\ pc # "start"
    /\ Len(processed_ids_file) <= MaxNotifs
    /\ processed_ids' = LoadProcessedIds(processed_ids_file)
    /\ pc' = "start"
    /\ new_notifications' = <<>>
    /\ cur' = NoValue
    /\ batch' = <<>>
    /\ attempt' = 0
    /\ chat_calls' = 0
    /\ sleeps' = 0
    /\ response' = NoValue
    /\ ai_decision' = NoValue
    /\ last' = NoValue
    /\ arg' = Event("restart", "")
    /\ UNCHANGED <<cfg, infractions, infractions_file, processed_ids_file,
                   server, ret>>

NextV1 ==
    \/ Connect
    \/ NewMention({Friend, Troll}, IdKinds, MaxNotifs)
    \/ PollV1
    \/ ProcessV1
    \/ Wake
    \/ RestartV1

SpecV1 == Init /\ [][NextV1]_vars

\* C28: in the first-generation script no notification is in work whose id
\* save_processed_id has written to the file, restarts included, for ids
\* delivered as integers and as strings.
C28_SavedIdIsSkippedV1 ==
    pc = "analyze" => Str(cur.id) \notin Range(processed_ids_file)

====
